---- MODULE Spec2Model ----
(***************************************************************************)
(* Model of app.py: the Flask application that predicts a used bike's      *)
(* price with a pre-trained regressor and optionally rescales it with      *)
(* heuristic multipliers.                                                  *)
(*                                                                         *)
(* Python values are tagged records: None, str (a sequence of one-letter   *)
(* strings), num (an int or float, held as an exact fraction n/d, or the   *)
(* float NaN).  Float rounding is not modelled: products are exact.        *)
(***************************************************************************)
EXTENDS Integers, Sequences, FiniteSets, TLC

VARIABLES model, model_loaded, load_error, req, resp, trace, args, result

vars == <<model, model_loaded, load_error, req, resp, trace, args, result>>

(***************************************************************************)
(* Bounds                                                                  *)
(***************************************************************************)
\* base predictions are k * 25000 for k in -1 .. MaxBase
MaxBase == 2

(***************************************************************************)
(* Python values                                                           *)
(***************************************************************************)
None == [t |-> "none"]

Str(chars) == [t |-> "str", s |-> chars]

NaN == [t |-> "num", nan |-> TRUE, n |-> 0, d |-> 1]

Abs(i) == IF i < 0 THEN -i ELSE i

RECURSIVE GCD(_, _)
GCD(a, b) == IF b = 0 THEN a ELSE GCD(b, a % b)

\* the number n/d (d > 0) in lowest terms
Frac(n, d) ==
    LET g == GCD(Abs(n), d)
    IN  [t |-> "num", nan |-> FALSE, n |-> n \div g, d |-> d \div g]

Num(i) == Frac(i, 1)

\* x * y on floats: NaN is absorbing; cross-reduced to keep the integers small
Mul(x, y) ==
    IF x.nan \/ y.nan THEN NaN
    ELSE LET g1 == GCD(Abs(x.n), y.d)
             g2 == GCD(Abs(y.n), x.d)
         IN  Frac((x.n \div g1) * (y.n \div g2), (x.d \div g2) * (y.d \div g1))

\* x < y and x > y: every comparison with NaN is false
Lt(x, y) == ~x.nan /\ ~y.nan /\ x.n * y.d < y.n * x.d

Gt(x, y) == Lt(y, x)

\* x <= y on floats
Le(x, y) == ~x.nan /\ ~y.nan /\ x.n * y.d <= y.n * x.d

\* Python truthiness of None and of a str
truthy(v) == v.t = "str" /\ v.s # <<>>

(***************************************************************************)
(* str.lower() and the `in` substring test                                 *)
(***************************************************************************)
UpperToLower ==
    "A" :> "a" @@ "B" :> "b" @@ "C" :> "c" @@ "D" :> "d" @@ "E" :> "e" @@
    "F" :> "f" @@ "G" :> "g" @@ "H" :> "h" @@ "I" :> "i" @@ "J" :> "j" @@
    "K" :> "k" @@ "L" :> "l" @@ "M" :> "m" @@ "N" :> "n" @@ "O" :> "o" @@
    "P" :> "p" @@ "Q" :> "q" @@ "R" :> "r" @@ "S" :> "s" @@ "T" :> "t" @@
    "U" :> "u" @@ "V" :> "v" @@ "W" :> "w" @@ "X" :> "x" @@ "Y" :> "y" @@
    "Z" :> "z"

lower(chars) ==
    [i \in 1..Len(chars) |->
        IF chars[i] \in DOMAIN UpperToLower THEN UpperToLower[chars[i]] ELSE chars[i]]

\* key in lowered
contains(lowered, key) ==
    \E i \in 0..(Len(lowered) - Len(key)) : SubSeq(lowered, i + 1, i + Len(key)) = key

(***************************************************************************)
(* apply_heuristics                                                        *)
(***************************************************************************)
owner_map ==
    <<"1", "s", "t", " ", "o", "w", "n", "e", "r">> :> Frac(105, 100) @@
    <<"2", "n", "d", " ", "o", "w", "n", "e", "r">> :> Frac(98, 100) @@
    <<"3", "r", "d", " ", "o", "w", "n", "e", "r">> :> Frac(94, 100) @@
    <<"4", "t", "h", " ", "o", "w", "n", "e", "r">> :> Frac(90, 100)

seller_map ==
    <<"i", "n", "d", "i", "v", "i", "d", "u", "a", "l">> :> Frac(100, 100) @@
    <<"d", "e", "a", "l", "e", "r">> :> Frac(103, 100) @@
    <<"t", "r", "u", "s", "t", "m", "a", "r", "k", " ", "d", "e", "a", "l", "e", "r">>
        :> Frac(105, 100)

\* a dict iterates in insertion order: model_map.items() is this sequence
model_map ==
    << [key |-> <<"r", "o", "y", "a", "l">>, val |-> Frac(115, 100)],
       [key |-> <<"h", "o", "n", "d", "a">>, val |-> Frac(106, 100)],
       [key |-> <<"y", "a", "m", "a", "h", "a">>, val |-> Frac(105, 100)],
       [key |-> <<"b", "a", "j", "a", "j">>, val |-> Frac(100, 100)],
       [key |-> <<"h", "e", "r", "o">>, val |-> Frac(100, 100)],
       [key |-> <<"s", "u", "z", "u", "k", "i">>, val |-> Frac(104, 100)] >>

\* map.get(key, default)
dict_get(map, key, default) == IF key \in DOMAIN map THEN map[key] ELSE default

\* breakdown[key] = val
dict_set(map, key, val) ==
    [k \in DOMAIN map \cup {key} |-> IF k = key THEN val ELSE map[k]]

\* faulty variant: the owner looked up as written, not lower-cased
owner_mult_nolower(owner) == dict_get(owner_map, owner.s, Num(1))

\* owner_map.get(owner.lower(), 1.0)
owner_mult(owner) == dict_get(owner_map, lower(owner.s), Num(1))

\* seller_map.get(seller_type.lower(), 1.0)
seller_mult(seller_type) == dict_get(seller_map, lower(seller_type.s), Num(1))

\* faulty variant: the upper bands tested with >= in place of >
km_mult_inclusive(km_driven) ==
    IF ~Lt(km_driven, Num(50000)) /\ ~km_driven.nan THEN Frac(88, 100)
    ELSE IF ~Lt(km_driven, Num(30000)) /\ ~km_driven.nan THEN Frac(95, 100)
    ELSE IF Lt(km_driven, Num(15000)) THEN Frac(103, 100)
    ELSE Num(1)

\* the if / elif chain on km_driven
km_mult(km_driven) ==
    IF Gt(km_driven, Num(50000)) THEN Frac(88, 100)
    ELSE IF Gt(km_driven, Num(30000)) THEN Frac(95, 100)
    ELSE IF Lt(km_driven, Num(15000)) THEN Frac(103, 100)
    ELSE Num(1)

\* faulty variant: no break, so the last matching key wins
RECURSIVE model_scan_last(_, _)
model_scan_last(lowered, i) ==
    IF i > Len(model_map) THEN [found |-> FALSE, val |-> Num(1)]
    ELSE LET rest == model_scan_last(lowered, i + 1)
         IN  IF rest.found THEN rest
             ELSE IF contains(lowered, model_map[i].key)
                  THEN [found |-> TRUE, val |-> model_map[i].val]
                  ELSE rest

\* the for loop over model_map.items() from its i-th item on: the first key
\* contained in lowered ends the loop
RECURSIVE model_scan(_, _)
model_scan(lowered, i) ==
    IF i > Len(model_map) THEN [found |-> FALSE, val |-> Num(1)]
    ELSE IF contains(lowered, model_map[i].key)
         THEN [found |-> TRUE, val |-> model_map[i].val]
         ELSE model_scan(lowered, i + 1)

\* faulty variant: the factor is recorded but not multiplied in
record_only(acc, key, mult) ==
    [multiplier |-> acc.multiplier, breakdown |-> dict_set(acc.breakdown, key, mult)]

\* multiplier *= mult; breakdown[key] = mult
apply_factor(acc, key, mult) ==
    [multiplier |-> Mul(acc.multiplier, mult),
     breakdown  |-> dict_set(acc.breakdown, key, mult)]

\* the body of apply_heuristics after the apply_adjustments short-circuit
adjust(base_pred, owner, seller_type, model_name, km_driven) ==
    LET a0 == [multiplier |-> Num(1), breakdown |-> ("base" :> base_pred)]
        a1 == IF truthy(owner)
              THEN apply_factor(a0, "owner_multiplier", owner_mult(owner))
              ELSE a0
        a2 == IF truthy(seller_type)
              THEN apply_factor(a1, "seller_multiplier", seller_mult(seller_type))
              ELSE a1
        a3 == IF km_driven # None
              THEN apply_factor(a2, "km_multiplier", km_mult(km_driven))
              ELSE a2
        a4 == IF truthy(model_name)
              THEN LET hit == model_scan(lower(model_name.s), 1)
                   IN  IF hit.found
                       THEN apply_factor(a3, "model_multiplier", hit.val)
                       ELSE [a3 EXCEPT !.breakdown =
                                dict_set(@, "model_multiplier", Num(1))]
              ELSE a3
        adjusted == Mul(base_pred, a4.multiplier)
    IN  [adjusted  |-> adjusted,
         breakdown |-> dict_set(dict_set(a4.breakdown, "adjusted", adjusted),
                                "total_multiplier", a4.multiplier)]

\* faulty variant: the apply_adjustments short-circuit is missing
apply_heuristics_always(base_pred, owner, seller_type, model_name, km_driven, apply_adjustments) ==
    adjust(base_pred, owner, seller_type, model_name, km_driven)

apply_heuristics(base_pred, owner, seller_type, model_name, km_driven, apply_adjustments) ==
    IF ~apply_adjustments
    THEN [adjusted |-> base_pred, breakdown |-> ("base" :> base_pred)]
    ELSE adjust(base_pred, owner, seller_type, model_name, km_driven)

(***************************************************************************)
(* Arguments of direct calls of apply_heuristics                           *)
(***************************************************************************)
BasePreds == {Num(k * 25000) : k \in -1..MaxBase}

OwnerArgs ==
    {None, Str(<<>>),
     Str(<<"1", "s", "t", " ", "o", "w", "n", "e", "r">>),
     Str(<<"1", "S", "T", " ", "O", "W", "N", "E", "R">>),
     Str(<<"2", "n", "d", " ", "o", "w", "n", "e", "r">>),
     Str(<<"3", "r", "d", " ", "O", "w", "n", "e", "r">>),
     Str(<<"4", "t", "h", " ", "o", "w", "n", "e", "r">>),
     Str(<<"5", "t", "h", " ", "o", "w", "n", "e", "r">>)}

SellerArgs ==
    {None, Str(<<>>),
     Str(<<"i", "n", "d", "i", "v", "i", "d", "u", "a", "l">>),
     Str(<<"D", "e", "a", "l", "e", "r">>),
     Str(<<"T", "r", "u", "s", "t", "m", "a", "r", "k", " ", "D", "e", "a", "l", "e", "r">>),
     Str(<<"b", "r", "o", "k", "e", "r">>)}

ModelArgs ==
    {None, Str(<<>>),
     Str(<<"R", "o", "y", "a", "l", " ", "H", "o", "n", "d", "a">>),
     Str(<<"H", "o", "n", "d", "a", " ", "R", "o", "y", "a", "l">>),
     Str(<<"H", "e", "r", "o", " ", "H", "o", "n", "d", "a">>),
     Str(<<"Y", "A", "M", "A", "H", "A", " ", "F", "Z">>),
     Str(<<"B", "a", "j", "a", "j", " ", "P", "u", "l", "s", "a", "r">>),
     Str(<<"H", "e", "r", "o", " ", "S", "p", "l", "e", "n", "d", "o", "r">>),
     Str(<<"S", "u", "z", "u", "k", "i", " ", "G", "i", "x", "x", "e", "r">>),
     Str(<<"K", "T", "M", " ", "D", "u", "k", "e">>)}

KmArgs ==
    {None, NaN, Num(0), Num(14999), Frac(29999, 2), Num(15000), Num(30000),
     Num(30001), Num(50000), Num(50001)}

ArgSet ==
    [base_pred : BasePreds, owner : OwnerArgs, seller_type : SellerArgs,
     model_name : ModelArgs, km_driven : KmArgs, apply_adjustments : BOOLEAN]

NoCall == [t |-> "none"]

(***************************************************************************)
(* int() and float()                                                       *)
(*                                                                         *)
(* The literals read are an optional sign, decimal digits and, for float,  *)
(* one optional point, and "nan" in any letter case.  Surrounding white    *)
(* space, digit-group underscores, exponents and infinities are not        *)
(* modelled; no request of the model carries them.                         *)
(***************************************************************************)
DigitVal ==
    "0" :> 0 @@ "1" :> 1 @@ "2" :> 2 @@ "3" :> 3 @@ "4" :> 4 @@
    "5" :> 5 @@ "6" :> 6 @@ "7" :> 7 @@ "8" :> 8 @@ "9" :> 9

IsDigits(chars) == \A i \in 1..Len(chars) : chars[i] \in DOMAIN DigitVal

RECURSIVE DigitsValue(_)
DigitsValue(chars) ==
    IF chars = <<>> THEN 0
    ELSE 10 * DigitsValue(SubSeq(chars, 1, Len(chars) - 1)) + DigitVal[chars[Len(chars)]]

RECURSIVE Pow10(_)
Pow10(k) == IF k = 0 THEN 1 ELSE 10 * Pow10(k - 1)

HasSign(chars) == chars # <<>> /\ chars[1] \in {"-", "+"}

Unsigned(chars) == IF HasSign(chars) THEN Tail(chars) ELSE chars

Sign(chars) == IF chars # <<>> /\ chars[1] = "-" THEN -1 ELSE 1

Raise(exc, msg) == [ok |-> FALSE, exc |-> exc, msg |-> msg]

Return(v) == [ok |-> TRUE, v |-> v]

\* int(v): the result is a TLA+ integer
py_int(v) ==
    CASE v.t = "none" -> Raise("TypeError", "int() argument must be a string, a bytes-like object or a real number, not 'NoneType'")
      [] v.t = "bool" -> Return(IF v.b THEN 1 ELSE 0)
      [] v.t = "num"  ->
            IF v.nan THEN Raise("ValueError", "cannot convert float NaN to integer")
            ELSE Return(IF v.n >= 0 THEN v.n \div v.d ELSE -((-v.n) \div v.d))
      [] v.t = "str"  ->
            LET u == Unsigned(v.s)
            IN  IF u # <<>> /\ IsDigits(u)
                THEN Return(Sign(v.s) * DigitsValue(u))
                ELSE Raise("ValueError", "invalid literal for int() with base 10")

\* float(v): the result is a num
py_float(v) ==
    CASE v.t = "none" -> Raise("TypeError", "float() argument must be a string or a real number, not 'NoneType'")
      [] v.t = "bool" -> Return(Num(IF v.b THEN 1 ELSE 0))
      [] v.t = "num"  -> Return(v)
      [] v.t = "str"  ->
            LET u    == Unsigned(v.s)
                dots == {i \in 1..Len(u) : u[i] = "."}
                p    == IF dots = {} THEN Len(u) + 1 ELSE CHOOSE i \in dots : TRUE
                ip   == SubSeq(u, 1, p - 1)
                fp   == SubSeq(u, p + 1, Len(u))
            IN  IF lower(u) = <<"n", "a", "n">> THEN Return(NaN)
                ELSE IF /\ Cardinality(dots) <= 1
                        /\ IsDigits(ip) /\ IsDigits(fp)
                        /\ Len(ip) + Len(fp) > 0
                     THEN Return(Frac(Sign(v.s) * (DigitsValue(ip) * Pow10(Len(fp))
                                                   + DigitsValue(fp)),
                                      Pow10(Len(fp))))
                     ELSE Raise("ValueError", "could not convert string to float")

\* bool(v)
py_bool(v) ==
    CASE v.t = "none" -> FALSE
      [] v.t = "bool" -> v.b
      [] v.t = "num"  -> v.nan \/ v.n # 0
      [] v.t = "str"  -> v.s # <<>>

\* v or None
or_none(v) == IF py_bool(v) THEN v ELSE None

\* a message: str(e) of an exception, or an f-string with one substitution
Text(m, arg) == [t |-> "text", m |-> m, arg |-> arg]

Bool(b) == [t |-> "bool", b |-> b]

\* a dict (request.form, the JSON payload, a response body) and dict.get
Dict(f) == [t |-> "dict", d |-> f]

get(dict, key) == IF key \in DOMAIN dict.d THEN dict.d[key] ELSE None

(***************************************************************************)
(* Module globals                                                          *)
(***************************************************************************)
MODEL_PATH == "best_bike_price_model.pkl"

\* flask_cors is importable
CORS_AVAILABLE == TRUE

\* datetime.now().year when the module is loaded
CURRENT_YEAR == 2026

\* the unpickled regressor, fitted on a DataFrame with named columns
Regressor ==
    [t |-> "model",
     feature_names_in_ |-> <<"year", "km_driven", "ex_showroom_price", "age">>]

\* the three ways module loading ends: loaded, joblib.load raised, no file
Startups ==
    { [model |-> Regressor, model_loaded |-> TRUE, load_error |-> None],
      [model |-> None, model_loaded |-> FALSE,
       load_error |-> Text("unpickling failed", None)],
      [model |-> None, model_loaded |-> FALSE,
       load_error |-> Text("Model file not found at {MODEL_PATH}. Run the training notebook to create it.", MODEL_PATH)] }

\* what model.predict(X)[0] does: a prediction, or an exception of the model
PredictOutcomes ==
    {[raises |-> FALSE, value |-> b] : b \in BasePreds}
        \cup {[raises |-> TRUE, value |-> None]}

(***************************************************************************)
(* Requests                                                                *)
(***************************************************************************)
RECURSIVE DecimalChars(_)
DecimalChars(i) ==
    LET digit == CHOOSE c \in DOMAIN DigitVal : DigitVal[c] = i % 10
    IN  IF i < 10 THEN <<digit>> ELSE Append(DecimalChars(i \div 10), digit)

\* marks a field the request does not carry
Absent == [t |-> "absent"]

FieldNames ==
    {"year", "km_driven", "ex_showroom_price", "owner", "seller_type", "model_name",
     "apply_adjustments"}

\* the dict holding the fields of f that are not Absent
Payload(f) == Dict([k \in {x \in FieldNames : f[x] # Absent} |-> f[k]])

YearTexts ==
    {Str(<<"1", "8", "9", "9">>), Str(<<"1", "9", "0", "0">>), Str(<<"2", "0", "1", "8">>),
     Str(DecimalChars(CURRENT_YEAR)), Str(DecimalChars(CURRENT_YEAR + 1)),
     Str(<<"a", "b", "c">>), Str(<<"2", "0", "1", "8", ".", "5">>)}

KmTexts ==
    {Str(<<"-", "1">>), Str(<<"0">>), Str(<<"1", "5", "0", "0", "0">>),
     Str(<<"5", "0", "0", "0", "1">>), Str(<<"n", "a", "n">>), Str(<<"a", "b", "c">>)}

PriceTexts ==
    {Str(<<"0">>), Str(<<"8", "5", "0", "0", "0">>), Str(<<"-", "5">>),
     Str(<<"a", "b", "c">>)}

OwnerTexts == {Str(<<>>), Str(<<"1", "s", "t", " ", "o", "w", "n", "e", "r">>)}

SellerTexts == {Str(<<"D", "e", "a", "l", "e", "r">>)}

ModelTexts == {Str(<<"R", "o", "y", "a", "l", " ", "H", "o", "n", "d", "a">>)}

\* request.form of a POST to "/"
Forms ==
    { Payload(f) : f \in
        [year : {Absent} \cup YearTexts,
         km_driven : {Absent} \cup KmTexts,
         ex_showroom_price : {Absent} \cup PriceTexts,
         owner : {Absent} \cup OwnerTexts,
         seller_type : {Absent} \cup SellerTexts,
         model_name : {Absent} \cup ModelTexts,
         apply_adjustments : {Absent, Str(<<"o", "n">>), Str(<<"o", "f", "f">>)}] }

\* request.get_json(force=True) of a POST to "/predict": null or an object
JsonPayloads ==
    {None} \cup
    { Payload(f) : f \in
        [year : {Absent, None, Num(1899), Num(1900), Num(2018), Num(CURRENT_YEAR),
                 Num(CURRENT_YEAR + 1), Frac(4037, 2), Str(<<"2", "0", "1", "8">>),
                 Str(<<"a", "b", "c">>)},
         km_driven : {Absent, Num(-1), Num(0), Num(15000), Num(50001), NaN,
                      Str(<<"a", "b", "c">>)},
         ex_showroom_price : {Absent, Num(0), Num(85000), Num(-5), Str(<<"a", "b", "c">>)},
         owner : {Absent} \cup OwnerTexts,
         seller_type : {Absent} \cup SellerTexts,
         model_name : {Absent} \cup ModelTexts,
         apply_adjustments : {Absent, Bool(TRUE), Bool(FALSE),
                              Str(<<"f", "a", "l", "s", "e">>)}] }

(***************************************************************************)
(* Handlers                                                                *)
(***************************************************************************)
NoReq == [t |-> "none"]

NoResp == [t |-> "none"]

\* whether the handler got to the model.predict(X) line, whether predict ran
\* (it cannot on model = None), and the X it was given
NotReached == [reached |-> FALSE, called |-> FALSE, X |-> None]

Reached(X) == [reached |-> TRUE, called |-> model # None, X |-> X]

\* pd.DataFrame([[year, km_driven, ex_showroom_price, age]], columns=[...])
DataFrame(year, km_driven, ex_showroom_price) ==
    [t |-> "frame",
     columns |-> <<"year", "km_driven", "ex_showroom_price", "age">>,
     row |-> <<Num(year), km_driven, ex_showroom_price, Num(CURRENT_YEAR - year)>>]

\* faulty variant: years after the current year are accepted
index_validate_no_upper(year, km_driven, ex_showroom_price) ==
    IF year < 1900
    THEN Raise("ValueError", "Please enter a valid manufacturing year.")
    ELSE IF Lt(km_driven, Num(0))
    THEN Raise("ValueError", "Kilometers driven cannot be negative.")
    ELSE IF Le(ex_showroom_price, Num(0))
    THEN Raise("ValueError", "Ex-showroom price must be positive.")
    ELSE Return(TRUE)

\* "Basic validation" of index
index_validate(year, km_driven, ex_showroom_price) ==
    IF year < 1900 \/ year > CURRENT_YEAR
    THEN Raise("ValueError", "Please enter a valid manufacturing year.")
    ELSE IF Lt(km_driven, Num(0))
    THEN Raise("ValueError", "Kilometers driven cannot be negative.")
    ELSE IF Le(ex_showroom_price, Num(0))
    THEN Raise("ValueError", "Ex-showroom price must be positive.")
    ELSE Return(TRUE)

\* index, from "read inputs from form" to the end of the validation
index_inputs(form) ==
    LET year              == py_int(get(form, "year"))
        km_driven         == py_float(get(form, "km_driven"))
        ex_showroom_price == py_float(get(form, "ex_showroom_price"))
    IN  IF ~year.ok THEN year
        ELSE IF ~km_driven.ok THEN km_driven
        ELSE IF ~ex_showroom_price.ok THEN ex_showroom_price
        ELSE LET valid == index_validate(year.v, km_driven.v, ex_showroom_price.v)
             IN  IF ~valid.ok THEN valid
                 ELSE Return([year |-> year.v, km_driven |-> km_driven.v,
                              ex_showroom_price |-> ex_showroom_price.v,
                              owner |-> or_none(get(form, "owner")),
                              seller_type |-> or_none(get(form, "seller_type")),
                              model_name |-> or_none(get(form, "model_name")),
                              apply_adjustments |->
                                  get(form, "apply_adjustments") = Str(<<"o", "n">>)])

\* render_template("index.html", ...): the template's variables
render_template(prediction, adjusted_prediction, breakdown, error) ==
    [route |-> "/", status |-> 200,
     body |-> Dict("prediction" :> prediction @@
                   "adjusted_prediction" :> adjusted_prediction @@
                   "breakdown" :> breakdown @@ "error" :> error)]

\* index, from model.predict on, with what predict did
index_predict(inputs, outcome) ==
    IF outcome.raises
    THEN render_template(None, None, None, Text("error raised by model.predict", None))
    ELSE LET h == apply_heuristics(outcome.value, inputs.owner, inputs.seller_type,
                                   inputs.model_name, inputs.km_driven,
                                   inputs.apply_adjustments)
         IN  render_template(outcome.value, h.adjusted, Dict(h.breakdown), None)

\* GET or POST "/"
index ==
    /\ resp = NoResp
    /\ \E method \in {"GET", "POST"} :
       \E form \in IF method = "POST" THEN Forms ELSE {Dict(<<>>)} :
          /\ req' = [route |-> "/", method |-> method, body |-> form]
          /\ IF ~model_loaded
             THEN /\ resp' = render_template(None, None, None,
                                 IF method = "POST"
                                 THEN Text("Model not loaded: {load_error}", load_error)
                                 ELSE None)
                  /\ trace' = NotReached
             ELSE IF method # "POST"
             THEN /\ resp' = render_template(None, None, None, None)
                  /\ trace' = NotReached
             ELSE LET inputs == index_inputs(form)
                  IN  IF ~inputs.ok
                      THEN /\ resp' = render_template(None, None, None,
                                                      Text(inputs.msg, None))
                           /\ trace' = NotReached
                      ELSE \E outcome \in PredictOutcomes :
                              /\ resp' = index_predict(inputs.v, outcome)
                              /\ trace' = Reached(DataFrame(inputs.v.year,
                                                            inputs.v.km_driven,
                                                            inputs.v.ex_showroom_price))
    /\ UNCHANGED <<model, model_loaded, load_error, args, result>>

\* faulty variant: load_error is never reported
health_load_error_none == None

\* load_error if not model_loaded else None
health_load_error == IF ~model_loaded THEN load_error ELSE None

\* GET "/health"
health ==
    /\ resp = NoResp
    /\ req' = [route |-> "/health", method |-> "GET", body |-> Dict(<<>>)]
    /\ resp' = [route |-> "/health", status |-> 200,
                body |-> Dict("model_loaded" :> Bool(model_loaded) @@
                              "model_path" :> Text(MODEL_PATH, None) @@
                              "load_error" :> health_load_error @@
                              "feature_names" :>
                                  (IF model = None THEN None
                                   ELSE [t |-> "list", items |-> model.feature_names_in_]) @@
                              "cors_available" :> Bool(CORS_AVAILABLE))]
    /\ trace' = NotReached
    /\ UNCHANGED <<model, model_loaded, load_error, args, result>>

\* jsonify(body), status
jsonify(body, status) == [route |-> "/predict", status |-> status, body |-> Dict(body)]

required == <<"year", "km_driven", "ex_showroom_price">>

\* [k for k in required if k not in data]
missing(data) == SelectSeq(required, LAMBDA k : k \notin DOMAIN data.d)

\* the three range checks of predict_api; the response of the first that fails
predict_api_validate(year, km_driven, ex_showroom_price) ==
    IF year < 1900 \/ year > CURRENT_YEAR
    THEN Raise("400", "Invalid year")
    ELSE IF Lt(km_driven, Num(0))
    THEN Raise("400", "Invalid km_driven")
    ELSE IF Le(ex_showroom_price, Num(0))
    THEN Raise("400", "Invalid ex_showroom_price")
    ELSE Return(TRUE)

\* predict_api, from the conversions to the end of the range checks: the
\* converted fields, a 400 of a range check, or the exception a conversion raised
predict_api_inputs(data) ==
    LET year              == py_int(data.d["year"])
        km_driven         == py_float(data.d["km_driven"])
        ex_showroom_price == py_float(data.d["ex_showroom_price"])
    IN  IF ~year.ok THEN year
        ELSE IF ~km_driven.ok THEN km_driven
        ELSE IF ~ex_showroom_price.ok THEN ex_showroom_price
        ELSE LET valid == predict_api_validate(year.v, km_driven.v,
                                               ex_showroom_price.v)
             IN  IF ~valid.ok THEN valid
                 ELSE Return([year |-> year.v, km_driven |-> km_driven.v,
                              ex_showroom_price |-> ex_showroom_price.v])

\* predict_api, from model.predict on, with what predict did
predict_api_predict(data, inputs, outcome) ==
    IF outcome.raises
    THEN jsonify("error" :> Text("error raised by model.predict", None), 500)
    ELSE LET h == apply_heuristics(outcome.value, get(data, "owner"),
                                   get(data, "seller_type"), get(data, "model_name"),
                                   inputs.km_driven,
                                   py_bool(get(data, "apply_adjustments")))
         IN  jsonify("predicted_selling_price" :> outcome.value @@
                     "adjusted_prediction" :> h.adjusted @@
                     "breakdown" :> Dict(h.breakdown), 200)

\* POST "/predict"
predict_api ==
    /\ resp = NoResp
    /\ \E data \in JsonPayloads :
          /\ req' = [route |-> "/predict", method |-> "POST", body |-> data]
          /\ IF data = None \/ DOMAIN data.d = {}
             THEN /\ resp' = jsonify("error" :> Text("No JSON payload provided", None), 400)
                  /\ trace' = NotReached
             ELSE IF missing(data) # <<>>
             THEN /\ resp' = jsonify("error" :> Text("Missing fields: {missing}",
                                                     missing(data)), 400)
                  /\ trace' = NotReached
             ELSE LET inputs == predict_api_inputs(data)
                  IN  IF ~inputs.ok /\ inputs.exc = "400"
                      THEN /\ resp' = jsonify("error" :> Text(inputs.msg, None), 400)
                           /\ trace' = NotReached
                      ELSE IF ~inputs.ok
                      THEN /\ resp' = jsonify("error" :> Text(inputs.msg, None), 500)
                           /\ trace' = NotReached
                      ELSE LET X == DataFrame(inputs.v.year, inputs.v.km_driven,
                                              inputs.v.ex_showroom_price)
                           IN  IF model = None
                               THEN /\ resp' = jsonify("error" :>
                                         Text("'NoneType' object has no attribute 'predict'",
                                              None), 500)
                                    /\ trace' = Reached(X)
                               ELSE \E outcome \in PredictOutcomes :
                                       /\ resp' = predict_api_predict(data, inputs.v, outcome)
                                       /\ trace' = Reached(X)
    /\ UNCHANGED <<model, model_loaded, load_error, args, result>>

\* the response is sent and the worker takes the next request
respond ==
    /\ resp # NoResp
    /\ req' = NoReq
    /\ resp' = NoResp
    /\ trace' = NotReached
    /\ UNCHANGED <<model, model_loaded, load_error, args, result>>

(***************************************************************************)
(* The server: the module is loaded, then requests are served one by one   *)
(***************************************************************************)
Init ==
    /\ \E s \in Startups :
          /\ model = s.model
          /\ model_loaded = s.model_loaded
          /\ load_error = s.load_error
    /\ req = NoReq
    /\ resp = NoResp
    /\ trace = NotReached
    /\ args = NoCall
    /\ result = NoCall

Next == index \/ health \/ predict_api \/ respond

Spec == Init /\ [][Next]_vars

(***************************************************************************)
(* Direct calls of apply_heuristics, a pure function of its arguments      *)
(***************************************************************************)
InitCall ==
    /\ model = None
    /\ model_loaded = FALSE
    /\ load_error = Text("Model file not found at {MODEL_PATH}. Run the training notebook to create it.", MODEL_PATH)
    /\ req = NoReq
    /\ resp = NoResp
    /\ trace = NotReached
    /\ args \in ArgSet
    /\ result = NoCall

call_apply_heuristics ==
    /\ result = NoCall
    /\ result' = apply_heuristics(args.base_pred, args.owner, args.seller_type,
                                  args.model_name, args.km_driven,
                                  args.apply_adjustments)
    /\ UNCHANGED <<model, model_loaded, load_error, req, resp, trace, args>>

NextCall == call_apply_heuristics

SpecCall == InitCall /\ [][NextCall]_vars

(***************************************************************************)
(* Properties of apply_heuristics, checked under SpecCall                  *)
(***************************************************************************)
Called == result # NoCall

Adjusted == Called /\ args.apply_adjustments

\* two letters that differ at most in case
SameLetter(a, b) ==
    \/ a = b
    \/ a \in DOMAIN UpperToLower /\ UpperToLower[a] = b
    \/ b \in DOMAIN UpperToLower /\ UpperToLower[b] = a

EqualIgnoringCase(x, y) ==
    Len(x) = Len(y) /\ \A i \in 1..Len(x) : SameLetter(x[i], y[i])

OccursIgnoringCase(key, name) ==
    \E i \in 0..(Len(name) - Len(key)) :
        \A j \in 1..Len(key) : SameLetter(name[i + j], key[j])

\* the factor a table of <<text, hundredths>> pairs gives a text, 1.0 if none
TableFactor(table, text) ==
    IF \E e \in table : EqualIgnoringCase(e[1], text)
    THEN LET e == CHOOSE e \in table : EqualIgnoringCase(e[1], text)
         IN  Frac(e[2], 100)
    ELSE Num(1)

OwnerTable ==
    { <<(<<"1", "s", "t", " ", "o", "w", "n", "e", "r">>), 105>>,
      <<(<<"2", "n", "d", " ", "o", "w", "n", "e", "r">>), 98>>,
      <<(<<"3", "r", "d", " ", "o", "w", "n", "e", "r">>), 94>>,
      <<(<<"4", "t", "h", " ", "o", "w", "n", "e", "r">>), 90>> }

SellerTable ==
    { <<(<<"i", "n", "d", "i", "v", "i", "d", "u", "a", "l">>), 100>>,
      <<(<<"d", "e", "a", "l", "e", "r">>), 103>>,
      <<(<<"t", "r", "u", "s", "t", "m", "a", "r", "k", " ", "d", "e", "a", "l", "e", "r">>),
        105>> }

KeywordTable ==
    << <<(<<"r", "o", "y", "a", "l">>), 115>>,
       <<(<<"h", "o", "n", "d", "a">>), 106>>,
       <<(<<"y", "a", "m", "a", "h", "a">>), 105>>,
       <<(<<"b", "a", "j", "a", "j">>), 100>>,
       <<(<<"h", "e", "r", "o">>), 100>>,
       <<(<<"s", "u", "z", "u", "k", "i">>), 104>> >>

KeywordHits(name) ==
    {i \in 1..Len(KeywordTable) : OccursIgnoringCase(KeywordTable[i][1], name)}

FirstKeywordFactor(name) ==
    LET hits == KeywordHits(name)
        i    == CHOOSE i \in hits : \A j \in hits : i <= j
    IN  IF hits = {} THEN Num(1) ELSE Frac(KeywordTable[i][2], 100)

\* a recorded multiplier, 1.0 for a key the breakdown does not have
Recorded(breakdown, key) == IF key \in DOMAIN breakdown THEN breakdown[key] ELSE Num(1)

RecordedProduct(breakdown) ==
    Mul(Mul(Recorded(breakdown, "owner_multiplier"),
            Recorded(breakdown, "seller_multiplier")),
        Mul(Recorded(breakdown, "km_multiplier"),
            Recorded(breakdown, "model_multiplier")))

\* C1: with apply_adjustments false the adjusted prediction is the base
\* prediction and the breakdown has the key base alone, whatever the owner,
\* seller type, model name and km_driven are.
C1_NoAdjustments ==
    (Called /\ ~args.apply_adjustments) =>
        /\ result.adjusted = args.base_pred
        /\ DOMAIN result.breakdown = {"base"}
        /\ result.breakdown["base"] = args.base_pred

C1_Witness ==
    /\ Called /\ ~args.apply_adjustments
    /\ args.base_pred = Num(50000)
    /\ args.owner = Str(<<"1", "s", "t", " ", "o", "w", "n", "e", "r">>)
    /\ args.seller_type = Str(<<"D", "e", "a", "l", "e", "r">>)
    /\ args.model_name = Str(<<"R", "o", "y", "a", "l", " ", "H", "o", "n", "d", "a">>)
    /\ args.km_driven = Num(50001)
    /\ result.adjusted = Num(50000)

\* C5: with adjustments applied and km_driven given (0 included) the
\* breakdown has km_multiplier: 0.88 above 50000, 0.95 above 30000 up to
\* 50000, 1.00 from 15000 to 30000, 1.03 below 15000; so 50001 -> 0.88,
\* 50000 -> 0.95, 30001 -> 0.95, 30000 -> 1.00, 15000 -> 1.00, 14999 -> 1.03,
\* 0 -> 1.03.
C5_KmBands ==
    (Adjusted /\ args.km_driven # None) =>
        LET km == args.km_driven
            b  == result.breakdown
        IN  /\ "km_multiplier" \in DOMAIN b
            /\ Gt(km, Num(50000)) => b["km_multiplier"] = Frac(88, 100)
            /\ (Gt(km, Num(30000)) /\ Le(km, Num(50000))) => b["km_multiplier"] = Frac(95, 100)
            /\ (Le(Num(15000), km) /\ Le(km, Num(30000))) => b["km_multiplier"] = Num(1)
            /\ Lt(km, Num(15000)) => b["km_multiplier"] = Frac(103, 100)
            /\ \A e \in { <<50001, 88>>, <<50000, 95>>, <<30001, 95>>, <<30000, 100>>,
                          <<15000, 100>>, <<14999, 103>>, <<0, 103>> } :
                   km = Num(e[1]) => b["km_multiplier"] = Frac(e[2], 100)

C5_Witness ==
    /\ Adjusted
    /\ args.km_driven = Num(50000)
    /\ result.breakdown["km_multiplier"] = Frac(95, 100)

\* C6: with adjustments applied and a non-empty model name, model_multiplier
\* is the factor of the first keyword, in the order royal, honda, yamaha,
\* bajaj, hero, suzuki, that occurs in the name whatever its letter case and
\* its place in the name; with no keyword in the name it is 1.0 and the total
\* multiplier is the product of the other recorded multipliers.
C6_FirstKeyword ==
    (Adjusted /\ truthy(args.model_name)) =>
        LET b == result.breakdown
        IN  /\ "model_multiplier" \in DOMAIN b
            /\ b["model_multiplier"] = FirstKeywordFactor(args.model_name.s)
            /\ KeywordHits(args.model_name.s) = {} =>
                  /\ b["model_multiplier"] = Num(1)
                  /\ b["total_multiplier"] =
                        Mul(Mul(Recorded(b, "owner_multiplier"),
                                Recorded(b, "seller_multiplier")),
                            Recorded(b, "km_multiplier"))
            /\ args.model_name.s \in
                  { <<"R", "o", "y", "a", "l", " ", "H", "o", "n", "d", "a">>,
                    <<"H", "o", "n", "d", "a", " ", "R", "o", "y", "a", "l">> }
                  => b["model_multiplier"] = Frac(115, 100)

C6_Witness ==
    /\ Adjusted
    /\ args.model_name = Str(<<"H", "o", "n", "d", "a", " ", "R", "o", "y", "a", "l">>)
    /\ result.breakdown["model_multiplier"] = Frac(115, 100)

\* C7: with adjustments applied the breakdown has owner_multiplier exactly
\* when a non-empty owner was given, and its value is the table entry of the
\* owner read without regard to letter case (1st owner 1.05, 2nd owner 0.98,
\* 3rd owner 0.94, 4th owner 0.90), 1.0 for any other string; the same for
\* seller_multiplier with individual 1.00, dealer 1.03, trustmark dealer 1.05.
C7_OwnerAndSeller ==
    Adjusted =>
        LET b == result.breakdown
        IN  /\ "owner_multiplier" \in DOMAIN b <=> truthy(args.owner)
            /\ truthy(args.owner) =>
                  b["owner_multiplier"] = TableFactor(OwnerTable, args.owner.s)
            /\ "seller_multiplier" \in DOMAIN b <=> truthy(args.seller_type)
            /\ truthy(args.seller_type) =>
                  b["seller_multiplier"] = TableFactor(SellerTable, args.seller_type.s)

C7_Witness ==
    /\ Adjusted
    /\ args.owner = Str(<<"1", "S", "T", " ", "O", "W", "N", "E", "R">>)
    /\ args.seller_type = Str(<<"b", "r", "o", "k", "e", "r">>)
    /\ result.breakdown["owner_multiplier"] = Frac(105, 100)
    /\ result.breakdown["seller_multiplier"] = Num(1)

\* C8: with adjustments applied total_multiplier is the product of the
\* multipliers the breakdown records, each once, and adjusted is base times
\* total_multiplier; base 50000 with owner "1st owner", km_driven 15000 and
\* no seller type or model name gives total_multiplier 1.05 and 52500.
C8_TotalIsProduct ==
    Adjusted =>
        LET b == result.breakdown
        IN  /\ b["total_multiplier"] = RecordedProduct(b)
            /\ b["adjusted"] = Mul(args.base_pred, b["total_multiplier"])
            /\ result.adjusted = b["adjusted"]
            /\ ( /\ args.base_pred = Num(50000)
                 /\ args.owner = Str(<<"1", "s", "t", " ", "o", "w", "n", "e", "r">>)
                 /\ args.km_driven = Num(15000)
                 /\ ~truthy(args.seller_type) /\ ~truthy(args.model_name) )
               => /\ b["total_multiplier"] = Frac(105, 100)
                  /\ result.adjusted = Num(52500)

C8_Witness ==
    /\ Adjusted
    /\ args.base_pred = Num(50000)
    /\ args.owner = Str(<<"1", "s", "t", " ", "o", "w", "n", "e", "r">>)
    /\ args.km_driven = Num(15000)
    /\ args.seller_type = None /\ args.model_name = None
    /\ result.adjusted = Num(52500)

(***************************************************************************)
(* Properties of the handlers, checked under Spec                          *)
(***************************************************************************)
Answered == resp # NoResp

Posted(route) == Answered /\ req.route = route /\ req.method = "POST"

\* the value a field's text or JSON value denotes, when it denotes a number
Denotes(v) == py_float(v)

IsNumber(v) == v.t \in {"str", "num"} /\ Denotes(v).ok

IsInteger(v) == IsNumber(v) /\ ~Denotes(v).v.nan /\ Denotes(v).v.d = 1

Carries(body, key) == body.t = "dict" /\ key \in DOMAIN body.d

\* year an integer in [1900, current year], km_driven >= 0, price > 0
ValidRequest(body) ==
    /\ \A k \in {"year", "km_driven", "ex_showroom_price"} :
          Carries(body, k) /\ IsNumber(body.d[k])
    /\ IsInteger(body.d["year"])
    /\ Le(Num(1900), Denotes(body.d["year"]).v)
    /\ Le(Denotes(body.d["year"]).v, Num(CURRENT_YEAR))
    /\ Le(Num(0), Denotes(body.d["km_driven"]).v)
    /\ Gt(Denotes(body.d["ex_showroom_price"]).v, Num(0))

\* a required field missing, not a number (year: not an integer), or out of
\* range
InvalidRequest(body) ==
    \/ \E k \in {"year", "km_driven", "ex_showroom_price"} :
          ~Carries(body, k) \/ ~IsNumber(body.d[k])
    \/ ~IsInteger(body.d["year"])
    \/ Lt(Denotes(body.d["year"]).v, Num(1900))
    \/ Gt(Denotes(body.d["year"]).v, Num(CURRENT_YEAR))
    \/ Lt(Denotes(body.d["km_driven"]).v, Num(0))
    \/ Le(Denotes(body.d["ex_showroom_price"]).v, Num(0))

ErrorOf(response) == get(response.body, "error")

\* a payload that is an object with at least one key
NonEmptyObject(body) == body.t = "dict" /\ DOMAIN body.d # {}

\* C2: with the model not loaded every POST to "/" and to "/predict", with
\* any payload, is answered with the "model not loaded" error and does not
\* get to the model's predict call.
C2_FailFastWhenNotLoaded ==
    (~model_loaded /\ (Posted("/") \/ Posted("/predict"))) =>
        /\ ErrorOf(resp) # None
        /\ ErrorOf(resp).m = "Model not loaded: {load_error}"
        /\ ~trace.reached

\* C3: with the model loaded, a POST to "/predict" that lacks year, km_driven
\* or ex_showroom_price, or carries a value for one of them that is not a
\* number or is out of range, gets 400 and an error (naming the missing keys
\* when a payload with some keys lacks others); 500 is only for unexpected
\* failures and 200 only for success.
C3_BadRequestGets400 ==
    (model_loaded /\ Posted("/predict")) =>
        /\ InvalidRequest(req.body) =>
              /\ resp.status = 400
              /\ ErrorOf(resp) # None
              /\ \A k \in {"year", "km_driven", "ex_showroom_price"} :
                    (NonEmptyObject(req.body) /\ ~Carries(req.body, k)) =>
                        /\ ErrorOf(resp).m = "Missing fields: {missing}"
                        /\ \E i \in 1..Len(ErrorOf(resp).arg) : ErrorOf(resp).arg[i] = k
        /\ resp.status = 500 => ~InvalidRequest(req.body)
        /\ resp.status = 200 =>
              /\ ~InvalidRequest(req.body)
              /\ DOMAIN resp.body.d =
                    {"predicted_selling_price", "adjusted_prediction", "breakdown"}

\* C4: with the model loaded, a POST to either handler gets to the model's
\* predict call if and only if year is an integer in [1900, current year],
\* km_driven >= 0 and ex_showroom_price > 0; a rejected request gets an error
\* and no prediction.
C4_PredictIffValid ==
    (model_loaded /\ (Posted("/") \/ Posted("/predict"))) =>
        /\ trace.reached <=> ValidRequest(req.body)
        /\ ~ValidRequest(req.body) =>
              /\ ErrorOf(resp) # None
              /\ ~trace.called

\* C9: a POST to "/" is answered 200 whatever the fields and the load state
\* are; on a validation failure (a field missing, not a number or out of
\* range) and with the model not loaded the error is set, and prediction,
\* adjusted_prediction and breakdown are absent whenever the error is set;
\* without an error all three are present.
C9_FormAlwaysRenders ==
    Posted("/") =>
        LET b == resp.body.d
        IN  /\ resp.status = 200
            /\ DOMAIN b = {"prediction", "adjusted_prediction", "breakdown", "error"}
            /\ (InvalidRequest(req.body) \/ ~model_loaded) => b["error"] # None
            /\ b["error"] # None =>
                  /\ b["prediction"] = None
                  /\ b["adjusted_prediction"] = None
                  /\ b["breakdown"] = None
            /\ b["error"] = None =>
                  /\ trace.called
                  /\ b["prediction"] # None
                  /\ b["adjusted_prediction"] # None
                  /\ b["breakdown"] # None

C9_Witness ==
    /\ Posted("/") /\ model_loaded
    /\ Carries(req.body, "year")
    /\ req.body.d["year"] = Str(DecimalChars(CURRENT_YEAR + 1))
    /\ Carries(req.body, "km_driven") /\ req.body.d["km_driven"] = Str(<<"0">>)
    /\ Carries(req.body, "ex_showroom_price")
    /\ req.body.d["ex_showroom_price"] = Str(<<"8", "5", "0", "0", "0">>)
    /\ ErrorOf(resp) # None
    /\ resp.body.d["prediction"] = None

\* C10: no request changes model, model_loaded or load_error; model_loaded
\* holds exactly when the model is present, and exactly when the health
\* endpoint reports a null load_error.
C10_LoadStateIsFixed ==
    /\ [][model' = model /\ model_loaded' = model_loaded /\ load_error' = load_error]_vars
    /\ [](/\ model_loaded <=> model # None
          /\ (Answered /\ req.route = "/health") =>
                /\ resp.body.d["model_loaded"] = Bool(model_loaded)
                /\ model_loaded <=> resp.body.d["load_error"] = None)

C10_Witness ==
    /\ Answered /\ req.route = "/health"
    /\ ~model_loaded
    /\ resp.body.d["load_error"] # None

====
